---- MODULE Spec2Model ----
(***************************************************************************)
(* Cookie jars of axum-extra: CookieJar (extract/cookie/mod.rs) and        *)
(* PrivateCookieJar (extract/cookie/private.rs), the parsing of the Cookie *)
(* request headers and the writing of the Set-Cookie response headers.     *)
(*                                                                         *)
(* Text is modelled character by character.  A string is a sequence of     *)
(* characters; a character is a record:                                    *)
(*   [ch |-> "a"]     an ASCII character, named by itself;                  *)
(*   [byte |-> n]     an ASCII character the table AsciiCode does not name; *)
(*   [u |-> <<..>>]   a non-ASCII character, by its UTF-8 bytes;            *)
(*   [raw |-> n]      an opaque byte (>= 128) of a header value;            *)
(*   [ct |-> ..]      the text of one sealed (encrypted and authenticated)  *)
(*                    value: ideal authenticated encryption, its base64     *)
(*                    text kept as one opaque block;                        *)
(*   [junk |-> i]     base64 text that authenticates under no key.          *)
(***************************************************************************)
EXTENDS Integers, Sequences, FiniteSets, TLC

----------------------------------------------------------------------------
(* Characters and strings *)

Ch(c) == [ch |-> c]

\* The string whose characters are named by the tuple t.
Str(t) == [i \in 1..Len(t) |-> Ch(t[i])]

IsNamed(x) == DOMAIN x = {"ch"}
IsByte(x) == DOMAIN x = {"byte"}
IsUnicode(x) == DOMAIN x = {"u"}
IsRaw(x) == DOMAIN x = {"raw"}
IsSealed(x) == DOMAIN x = {"ct"}
IsJunk(x) == DOMAIN x = {"junk"}

\* The ASCII codes of the characters the model names.
AsciiCode ==
    ("\t" :> 9) @@ ("\n" :> 10)
    @@ (" " :> 32) @@ ("%" :> 37) @@ ("-" :> 45)
    @@ ("/" :> 47) @@ ("0" :> 48) @@ ("1" :> 49) @@ ("2" :> 50)
    @@ ("3" :> 51) @@ ("4" :> 52) @@ ("5" :> 53) @@ ("6" :> 54)
    @@ ("7" :> 55) @@ ("8" :> 56) @@ ("9" :> 57) @@ (";" :> 59)
    @@ ("=" :> 61) @@ ("A" :> 65) @@ ("B" :> 66) @@ ("C" :> 67)
    @@ ("D" :> 68) @@ ("E" :> 69) @@ ("F" :> 70) @@ ("G" :> 71)
    @@ ("H" :> 72) @@ ("I" :> 73) @@ ("J" :> 74) @@ ("K" :> 75)
    @@ ("L" :> 76) @@ ("M" :> 77) @@ ("N" :> 78) @@ ("O" :> 79)
    @@ ("P" :> 80) @@ ("Q" :> 81) @@ ("R" :> 82) @@ ("S" :> 83)
    @@ ("T" :> 84) @@ ("U" :> 85) @@ ("V" :> 86) @@ ("W" :> 87)
    @@ ("X" :> 88) @@ ("Y" :> 89) @@ ("Z" :> 90) @@ ("_" :> 95)
    @@ ("a" :> 97) @@ ("b" :> 98) @@ ("c" :> 99) @@ ("d" :> 100)
    @@ ("e" :> 101) @@ ("f" :> 102) @@ ("g" :> 103) @@ ("h" :> 104)
    @@ ("i" :> 105) @@ ("j" :> 106) @@ ("k" :> 107) @@ ("l" :> 108)
    @@ ("m" :> 109) @@ ("n" :> 110) @@ ("o" :> 111) @@ ("p" :> 112)
    @@ ("q" :> 113) @@ ("r" :> 114) @@ ("s" :> 115) @@ ("t" :> 116)
    @@ ("u" :> 117) @@ ("v" :> 118) @@ ("w" :> 119) @@ ("x" :> 120)
    @@ ("y" :> 121) @@ ("z" :> 122)

\* The character of an ASCII code.
CharOfCode(n) ==
    IF \E c \in DOMAIN AsciiCode : AsciiCode[c] = n
    THEN Ch(CHOOSE c \in DOMAIN AsciiCode : AsciiCode[c] = n)
    ELSE [byte |-> n]

\* The bytes of a character in UTF-8; sealed and junk text is base64, whose
\* characters are letters, digits, '+', '/' and '='.
IsAscii(x) == IsNamed(x) \/ IsByte(x)
CodeOf(x) == IF IsNamed(x) THEN AsciiCode[x.ch] ELSE x.byte

RECURSIVE Concat(_)
Concat(ss) == IF ss = <<>> THEN <<>> ELSE Head(ss) \o Concat(Tail(ss))

\* s[i..] and s[..i]
From(s, i) == SubSeq(s, i, Len(s))
Upto(s, i) == SubSeq(s, 1, i)

\* str::find(c): the first index of a character satisfying Is, 0 when none.
FirstIndex(s, c) ==
    IF \E i \in 1..Len(s) : s[i] = c
    THEN CHOOSE i \in 1..Len(s) : s[i] = c /\ \A j \in 1..(i - 1) : s[j] # c
    ELSE 0

\* str::contains(t)
Contains(s, t) ==
    \E i \in 0..(Len(s) - Len(t)) : SubSeq(s, i + 1, i + Len(t)) = t

StartsWith(s, t) == Len(t) <= Len(s) /\ Upto(s, Len(t)) = t

\* str::split(c): the pieces between the occurrences of c, in order.
RECURSIVE Split(_, _)
Split(s, c) ==
    LET i == FirstIndex(s, c)
    IN  IF i = 0 THEN <<s>> ELSE <<Upto(s, i - 1)>> \o Split(From(s, i + 1), c)

\* str::trim(): White_Space characters are cut from both ends.
IsWhite(x) == IsNamed(x) /\ x.ch \in {" ", "\t", "\n"}

RECURSIVE TrimStart(_)
TrimStart(s) == IF s # <<>> /\ IsWhite(Head(s)) THEN TrimStart(Tail(s)) ELSE s

RECURSIVE TrimEnd(_)
TrimEnd(s) ==
    IF s # <<>> /\ IsWhite(s[Len(s)]) THEN TrimEnd(Upto(s, Len(s) - 1)) ELSE s

Trim(s) == TrimEnd(TrimStart(s))

----------------------------------------------------------------------------
(* Percent-encoding, as the cookie crate applies it to names and values *)

HexDigits == <<"0", "1", "2", "3", "4", "5", "6", "7", "8", "9",
               "A", "B", "C", "D", "E", "F">>

IsHex(x) ==
    IsNamed(x) /\ x.ch \in {HexDigits[i] : i \in 1..16} \cup {"a", "b", "c", "d", "e", "f"}

HexVal(x) ==
    CASE x.ch = "a" -> 10 [] x.ch = "b" -> 11 [] x.ch = "c" -> 12
      [] x.ch = "d" -> 13 [] x.ch = "e" -> 14 [] x.ch = "f" -> 15
      [] OTHER -> (CHOOSE i \in 1..16 : HexDigits[i] = x.ch) - 1

\* "%XX" for the byte n.
PercentOf(n) == <<Ch("%"), Ch(HexDigits[(n \div 16) + 1]), Ch(HexDigits[(n % 16) + 1])>>

\* The ASCII codes the cookie crate percent-encodes: the controls, and the
\* userinfo percent-encode set with '(', ')' and ','.
EncodeSet ==
    (0..31) \cup {127}
    \cup {32, 34, 35, 37, 40, 41, 44, 47, 58, 59, 60, 61, 62, 63, 64,
          91, 92, 93, 94, 96, 123, 124, 125}

\* percent_encode of one character.  The base64 text of a sealed value keeps
\* its identity through percent-encoding and decoding: it is one block.
EncodeChar(x) ==
    IF IsAscii(x)
    THEN IF CodeOf(x) \in EncodeSet THEN PercentOf(CodeOf(x)) ELSE <<x>>
    ELSE IF IsUnicode(x)
    THEN Concat([i \in 1..Len(x.u) |-> PercentOf(x.u[i])])
    ELSE <<x>>

PercentEncode(s) == Concat([i \in 1..Len(s) |-> EncodeChar(s[i])])

\* percent_decode: "%" and two hex digits give a byte, everything else
\* stands for itself.
RECURSIVE PercentDecode(_)
PercentDecode(s) ==
    IF s = <<>> THEN <<>>
    ELSE IF Len(s) >= 3 /\ s[1] = Ch("%") /\ IsHex(s[2]) /\ IsHex(s[3])
    THEN <<[pb |-> 16 * HexVal(s[2]) + HexVal(s[3])]>> \o PercentDecode(From(s, 4))
    ELSE <<Head(s)>> \o PercentDecode(Tail(s))

IsDecodedByte(x) == DOMAIN x = {"pb"}
IsCont(x) == IsDecodedByte(x) /\ x.pb \in 128..191

\* The length of the UTF-8 sequence that starts at item i of bs, 0 when the
\* bytes there are not valid UTF-8.
Utf8Len(bs, i) ==
    LET b == bs[i].pb
        cont(j, lo, hi) == i + j <= Len(bs) /\ IsDecodedByte(bs[i + j])
                           /\ bs[i + j].pb \in lo..hi
    IN  IF b < 128 THEN 1
        ELSE IF b \in 194..223 THEN (IF cont(1, 128, 191) THEN 2 ELSE 0)
        ELSE IF b \in 224..239
        THEN (IF cont(1, IF b = 224 THEN 160 ELSE 128, IF b = 237 THEN 159 ELSE 191)
                 /\ cont(2, 128, 191) THEN 3 ELSE 0)
        ELSE IF b \in 240..244
        THEN (IF cont(1, IF b = 240 THEN 144 ELSE 128, IF b = 244 THEN 143 ELSE 191)
                 /\ cont(2, 128, 191) /\ cont(3, 128, 191) THEN 4 ELSE 0)
        ELSE 0

\* decode_utf8 of the decoded bytes: [ok |-> TRUE, s |-> the string], or
\* [ok |-> FALSE] for bytes that are not UTF-8.
RECURSIVE DecodeUtf8(_)
DecodeUtf8(bs) ==
    IF bs = <<>> THEN [ok |-> TRUE, s |-> <<>>]
    ELSE IF ~IsDecodedByte(Head(bs))
    THEN LET r == DecodeUtf8(Tail(bs))
         IN  IF r.ok THEN [ok |-> TRUE, s |-> <<Head(bs)>> \o r.s] ELSE r
    ELSE LET n == Utf8Len(bs, 1)
         IN  IF n = 0 THEN [ok |-> FALSE, s |-> <<>>]
             ELSE LET r == DecodeUtf8(From(bs, n + 1))
                      c == IF n = 1 THEN CharOfCode(bs[1].pb)
                           ELSE [u |-> [j \in 1..n |-> bs[j].pb]]
                  IN  IF r.ok THEN [ok |-> TRUE, s |-> <<c>> \o r.s] ELSE r

----------------------------------------------------------------------------
(* Cookies (cookie::Cookie).  An Option is a sequence: <<>> is None and     *)
(* <<v>> is Some(v).  The attributes kept are Secure, Path, Domain, Max-Age *)
(* and Expires; HttpOnly, SameSite and Partitioned are never set by the     *)
(* jars and are left out.                                                   *)

None == <<>>
Some(v) == <<v>>

\* Cookie::new(name, value)
Cookie_new(name, value) ==
    [name |-> name, value |-> value, secure |-> None, path |-> None,
     domain |-> None, max_age |-> None, expires |-> None]

\* Cookie::from(name): a cookie with an empty value
Cookie_from(name) == Cookie_new(name, <<>>)

\* A variant of make_removal that only empties the value.
make_removal_value_only(c) == [c EXCEPT !.value = <<>>]

\* Cookie::make_removal: an empty value, a max-age of zero and an expiry
\* one year before now.
make_removal(c) ==
    [c EXCEPT !.value = <<>>, !.max_age = Some(0), !.expires = Some("past")]

\* The text of a date: one block.
DateText(d) == <<[date |-> d]>>

\* Cookie::fmt_parameters: the attributes that are set, in the crate's order.
fmt_parameters(c) ==
    (IF c.secure = Some(TRUE) THEN Str(<<";", " ", "S", "e", "c", "u", "r", "e">>) ELSE <<>>)
    \o (IF c.path # None THEN Str(<<";", " ", "P", "a", "t", "h", "=">>) \o c.path[1] ELSE <<>>)
    \o (IF c.domain # None
        THEN Str(<<";", " ", "D", "o", "m", "a", "i", "n", "=">>) \o c.domain[1] ELSE <<>>)
    \o (IF c.max_age # None
        THEN Str(<<";", " ", "M", "a", "x", "-", "A", "g", "e", "=">>)
             \o <<Ch(HexDigits[c.max_age[1] + 1])>>
        ELSE <<>>)
    \o (IF c.expires # None
        THEN Str(<<";", " ", "E", "x", "p", "i", "r", "e", "s", "=">>) \o DateText(c.expires[1])
        ELSE <<>>)

\* A variant of the pair below with nothing percent-encoded.
EncodedPair_raw(c) == c.name \o <<Ch("=")>> \o c.value

\* The name=value pair of cookie.encoded(): both percent-encoded.
EncodedPair(c) == PercentEncode(c.name) \o <<Ch("=")>> \o PercentEncode(c.value)

\* cookie.encoded().to_string()
Encoded(c) == EncodedPair(c) \o fmt_parameters(c)

\* A variant of name_val_decoded that decodes nothing.
name_val_raw(name, val) == [ok |-> TRUE, name |-> name, value |-> val]

\* name_val_decoded: both percent-decoded, an error when either is not UTF-8.
name_val_decoded(name, val) ==
    LET n == DecodeUtf8(PercentDecode(name))
        v == DecodeUtf8(PercentDecode(val))
    IN  IF n.ok /\ v.ok THEN [ok |-> TRUE, name |-> n.s, value |-> v.s]
        ELSE [ok |-> FALSE, name |-> <<>>, value |-> <<>>]

\* Cookie::parse_encoded of one token of a Cookie header (the token holds no
\* ';'): Some(cookie), or None for the errors MissingPair, EmptyName and
\* Utf8Error.
parse_encoded(s) ==
    LET i == FirstIndex(s, Ch("="))
        name == Trim(Upto(s, i - 1))
        value == Trim(From(s, i + 1))
        d == name_val_decoded(name, value)
    IN  IF i = 0 THEN None
        ELSE IF name = <<>> THEN None
        ELSE IF ~d.ok THEN None
        ELSE Some(Cookie_new(d.name, d.value))

----------------------------------------------------------------------------
(* cookie::CookieJar: the original cookies and the delta cookies, each a   *)
(* set of DeltaCookie hashed by name, here a function from the names.       *)

DeltaCookie_added(c) == [cookie |-> c, removed |-> FALSE]
DeltaCookie_removed(c) == [cookie |-> c, removed |-> TRUE]

\* A variant of replace that keeps the entry a name already has.
Replace_kept(set, dc) ==
    [n \in DOMAIN set \cup {dc.cookie.name} |->
        IF n \in DOMAIN set THEN set[n] ELSE dc]

\* HashSet::replace and HashSet::remove, by name.
Replace(set, dc) ==
    [n \in DOMAIN set \cup {dc.cookie.name} |->
        IF n = dc.cookie.name THEN dc ELSE set[n]]
Without(set, name) == [n \in DOMAIN set \ {name} |-> set[n]]

\* cookie::CookieJar::new()
Jar_new == [original_cookies |-> <<>>, delta_cookies |-> <<>>]

\* cookie::CookieJar::get: the delta cookie of that name, else the original
\* one; None when it is a removal.
Jar_get(jar, name) ==
    IF name \in DOMAIN jar.delta_cookies
    THEN (IF jar.delta_cookies[name].removed THEN None
          ELSE Some(jar.delta_cookies[name].cookie))
    ELSE IF name \in DOMAIN jar.original_cookies
    THEN (IF jar.original_cookies[name].removed THEN None
          ELSE Some(jar.original_cookies[name].cookie))
    ELSE None

\* A variant of add_original that records the cookie as a change.
Jar_add_original_changed(jar, c) ==
    [jar EXCEPT !.delta_cookies = Replace(@, DeltaCookie_added(c))]

\* cookie::CookieJar::add_original
Jar_add_original(jar, c) ==
    [jar EXCEPT !.original_cookies = Replace(@, DeltaCookie_added(c))]

\* A variant of add that keeps the delta a diff: a cookie equal to the
\* original one of its name leaves the delta.
Jar_add_diff(jar, c) ==
    IF c.name \in DOMAIN jar.original_cookies /\ jar.original_cookies[c.name].cookie = c
    THEN [jar EXCEPT !.delta_cookies = Without(@, c.name)]
    ELSE [jar EXCEPT !.delta_cookies = Replace(@, DeltaCookie_added(c))]

\* cookie::CookieJar::add
Jar_add(jar, c) ==
    [jar EXCEPT !.delta_cookies = Replace(@, DeltaCookie_added(c))]

\* A variant of remove that makes a removal cookie for any name.
Jar_remove_always(jar, c) ==
    [jar EXCEPT !.delta_cookies = Replace(@, DeltaCookie_removed(make_removal(c)))]

\* cookie::CookieJar::remove: a removal cookie enters the delta when an
\* original cookie has that name; otherwise the name leaves the delta.
Jar_remove(jar, c) ==
    IF c.name \in DOMAIN jar.original_cookies
    THEN [jar EXCEPT !.delta_cookies = Replace(@, DeltaCookie_removed(make_removal(c)))]
    ELSE [jar EXCEPT !.delta_cookies = Without(@, c.name)]

\* cookie::CookieJar::delta: the cookies of the delta, removals included.
Jar_delta(jar) == {jar.delta_cookies[n].cookie : n \in DOMAIN jar.delta_cookies}

\* cookie::CookieJar::iter: the delta cookies and the original cookies whose
\* name is not in the delta, those removed left out.
Jar_iter(jar) ==
    {jar.delta_cookies[n].cookie :
        n \in {m \in DOMAIN jar.delta_cookies : ~jar.delta_cookies[m].removed}}
    \cup {jar.original_cookies[n].cookie :
        n \in {m \in DOMAIN jar.original_cookies \ DOMAIN jar.delta_cookies :
                  ~jar.original_cookies[m].removed}}

----------------------------------------------------------------------------
(* cookie::PrivateJar: values sealed under a key, bound to the cookie name. *)
(* The nonce of a sealed text is left out: no operation of the jars         *)
(* compares two sealed texts.                                               *)

\* The text of value sealed under key for the cookie called name.
Seal(key, name, value) == <<[ct |-> [key |-> key, aad |-> name, pt |-> value]]>>

\* PrivateJar::unseal: Some(plaintext) when text is sealed under key for
\* name, None for any other text.
Unseal(key, name, text) ==
    IF Len(text) = 1 /\ IsSealed(text[1]) /\ text[1].ct.key = key /\ text[1].ct.aad = name
    THEN Some(text[1].ct.pt)
    ELSE None

\* PrivateJar::encrypt_cookie
encrypt_cookie(key, c) == [c EXCEPT !.value = Seal(key, c.name, c.value)]

\* PrivateJar::decrypt
PrivateJar_decrypt(key, c) ==
    LET v == Unseal(key, c.name, c.value)
    IN  IF v # None THEN Some([c EXCEPT !.value = v[1]]) ELSE None

\* PrivateJar::get
PrivateJar_get(jar, key, name) ==
    LET c == Jar_get(jar, name)
    IN  IF c = None THEN None ELSE PrivateJar_decrypt(key, c[1])

\* PrivateJar::add, add_original and remove
PrivateJar_add(jar, key, c) == Jar_add(jar, encrypt_cookie(key, c))
PrivateJar_add_original(jar, key, c) == Jar_add_original(jar, encrypt_cookie(key, c))
PrivateJar_remove(jar, key, c) == Jar_remove(jar, c)

----------------------------------------------------------------------------
(* cookie::prefix: the prefixes __Host- and __Secure- and cookie::PrefixedJar *)

Prefixes == {"Host", "Secure"}

\* Prefix::PREFIX
PREFIX(P) ==
    IF P = "Host" THEN Str(<<"_", "_", "H", "o", "s", "t", "-">>)
    ELSE Str(<<"_", "_", "S", "e", "c", "u", "r", "e", "-">>)

\* Prefix::prefixed_name
prefixed_name(P, name) == PREFIX(P) \o name

\* Prefix::conform: Host sets Secure and Path=/ and unsets Domain; Secure
\* sets Secure.
conform(P, c) ==
    IF P = "Host"
    THEN [c EXCEPT !.secure = Some(TRUE), !.path = Some(Str(<<"/">>)), !.domain = None]
    ELSE [c EXCEPT !.secure = Some(TRUE)]

\* Prefix::apply: the name is prefixed and the attributes conform.
apply(P, c) == conform(P, [c EXCEPT !.name = prefixed_name(P, c.name)])

\* Prefix::clip: the prefix is cut from the name.
clip(P, c) ==
    IF StartsWith(c.name, PREFIX(P))
    THEN [c EXCEPT !.name = From(c.name, Len(PREFIX(P)) + 1)]
    ELSE c

\* PrefixedJar::get, add and remove
PrefixedJar_get(jar, P, name) ==
    LET c == Jar_get(jar, prefixed_name(P, name))
    IN  IF c = None THEN None ELSE Some(clip(P, c[1]))
PrefixedJar_add(jar, P, c) == Jar_add(jar, apply(P, c))
PrefixedJar_remove(jar, P, c) == Jar_remove(jar, apply(P, c))

----------------------------------------------------------------------------
(* http: header values *)

\* HeaderValue::to_str: the text of a header value, None unless every byte
\* is a visible ASCII character, a space or a tab.
to_str(value) ==
    IF \A i \in 1..Len(value) :
          /\ ~IsRaw(value[i])
          /\ IsAscii(value[i]) => (CodeOf(value[i]) \in 32..126 \/ CodeOf(value[i]) = 9)
    THEN Some(value)
    ELSE None

\* str::parse::<HeaderValue>(): Ok unless the text holds a control character
\* other than a tab.
IsHeaderValue(s) ==
    \A i \in 1..Len(s) :
        IsAscii(s[i]) => ((CodeOf(s[i]) >= 32 /\ CodeOf(s[i]) # 127) \/ CodeOf(s[i]) = 9)

----------------------------------------------------------------------------
(* extract/cookie/mod.rs *)

\* The cookies of the tokens of one header value, in order.
RECURSIVE ParsedTokens(_)
ParsedTokens(tokens) ==
    IF tokens = <<>> THEN <<>>
    ELSE parse_encoded(Head(tokens)) \o ParsedTokens(Tail(tokens))

\* cookies_from_request: the Cookie header values that are text, each split
\* on ';', each token parsed; what does not parse is left out.
RECURSIVE cookies_from_request(_)
cookies_from_request(headers) ==
    IF headers = <<>> THEN <<>>
    ELSE (IF to_str(Head(headers)) = None THEN <<>>
          ELSE ParsedTokens(Split(to_str(Head(headers))[1], Ch(";"))))
         \o cookies_from_request(Tail(headers))

\* A variant of the loop below in which the first cookie of a name stays.
RECURSIVE AddOriginals_first(_, _)
AddOriginals_first(jar, cookies) ==
    IF cookies = <<>> THEN jar
    ELSE AddOriginals_first(
            IF Head(cookies).name \in DOMAIN jar.original_cookies THEN jar
            ELSE Jar_add_original(jar, Head(cookies)),
            Tail(cookies))

\* The loop of CookieJar::from_headers over the cookies of the request.
RECURSIVE AddOriginals(_, _)
AddOriginals(jar, cookies) ==
    IF cookies = <<>> THEN jar
    ELSE AddOriginals(Jar_add_original(jar, Head(cookies)), Tail(cookies))

\* CookieJar::from_headers
CookieJar_from_headers(headers) ==
    [jar |-> AddOriginals(Jar_new, cookies_from_request(headers))]

\* CookieJar::new
CookieJar_new == [jar |-> Jar_new]

\* CookieJar::get, remove, add
CookieJar_get(self, name) == Jar_get(self.jar, name)
CookieJar_remove(self, cookie) == [self EXCEPT !.jar = Jar_remove(@, cookie)]
CookieJar_add(self, cookie) == [self EXCEPT !.jar = Jar_add(@, cookie)]

\* CookieJar::iter
CookieJar_iter(self) == Jar_iter(self.jar)

\* CookieJar::add_prefixed, get_prefixed, remove_prefixed
CookieJar_add_prefixed(self, prefix, cookie) ==
    [self EXCEPT !.jar = PrefixedJar_add(@, prefix, cookie)]
CookieJar_get_prefixed(self, prefix, name) == PrefixedJar_get(self.jar, prefix, name)
CookieJar_remove_prefixed(self, prefix, name) ==
    [self EXCEPT !.jar = PrefixedJar_remove(@, prefix, Cookie_from(name))]

\* A variant of set_cookies that stops at the first cookie whose text is not
\* a header value.
RECURSIVE set_cookies_failing(_, _)
set_cookies_failing(order, headers) ==
    IF order = <<>> THEN headers
    ELSE IF IsHeaderValue(Encoded(Head(order)))
    THEN set_cookies_failing(Tail(order), Append(headers, Encoded(Head(order))))
    ELSE headers

\* set_cookies: the cookies of the delta, in the order `order` in which the
\* delta yields them; each one whose encoded text is a header value is
\* appended as a Set-Cookie header.
RECURSIVE set_cookies(_, _)
set_cookies(order, headers) ==
    IF order = <<>> THEN headers
    ELSE set_cookies(Tail(order),
                     IF IsHeaderValue(Encoded(Head(order)))
                     THEN Append(headers, Encoded(Head(order)))
                     ELSE headers)

\* The orders in which the delta of a jar may yield its cookies: the delta is
\* a hash set, any order of its entries.
DeltaOrders(jar) ==
    LET D == Jar_delta(jar)
    IN  {o \in [1..Cardinality(D) -> D] : \A c \in D : \E i \in DOMAIN o : o[i] = c}

----------------------------------------------------------------------------
(* extract/cookie/private.rs *)

\* A variant of the loop below that adds every cookie, decrypted or not.
RECURSIVE AddUnchecked(_, _, _)
AddUnchecked(jar, key, cookies) ==
    IF cookies = <<>> THEN jar
    ELSE AddUnchecked(PrivateJar_add_original(jar, key, Head(cookies)), key, Tail(cookies))

\* The loop of PrivateCookieJar::from_headers: each cookie the key decrypts
\* is added, sealed again, as an original cookie.
RECURSIVE AddDecrypted(_, _, _)
AddDecrypted(jar, key, cookies) ==
    IF cookies = <<>> THEN jar
    ELSE AddDecrypted(
            IF PrivateJar_decrypt(key, Head(cookies)) # None
            THEN PrivateJar_add_original(jar, key, PrivateJar_decrypt(key, Head(cookies))[1])
            ELSE jar,
            key, Tail(cookies))

\* PrivateCookieJar::from_headers
PrivateCookieJar_from_headers(headers, key) ==
    [jar |-> AddDecrypted(Jar_new, key, cookies_from_request(headers)), key |-> key]

\* PrivateCookieJar::new
PrivateCookieJar_new(key) == [jar |-> Jar_new, key |-> key]

\* PrivateCookieJar::get, remove, add, decrypt
PrivateCookieJar_get(self, name) == PrivateJar_get(self.jar, self.key, name)
PrivateCookieJar_remove(self, cookie) ==
    [self EXCEPT !.jar = PrivateJar_remove(@, self.key, cookie)]
\* A variant of add that does not seal the value.
PrivateCookieJar_add_unsealed(self, cookie) == [self EXCEPT !.jar = Jar_add(@, cookie)]
PrivateCookieJar_add(self, cookie) ==
    [self EXCEPT !.jar = PrivateJar_add(@, self.key, cookie)]
PrivateCookieJar_decrypt(self, cookie) == PrivateJar_decrypt(self.key, cookie)

\* PrivateCookieJar::iter with PrivateCookieJarIter::next: get of the name of
\* each cookie the jar yields, those get answers None for left out.
PrivateCookieJar_iter(self) ==
    {PrivateCookieJar_get(self, c.name)[1] :
        c \in {d \in Jar_iter(self.jar) : PrivateCookieJar_get(self, d.name) # None}}

\* The orders in which cookie::CookieJar::iter may yield the cookies of a
\* jar: the jar's sets are hash sets, any order of the cookies.
RECURSIVE Orders(_)
Orders(S) ==
    IF S = {} THEN {<<>>}
    ELSE UNION {{<<x>> \o o : o \in Orders(S \ {x})} : x \in S}

\* A variant of the iterator below that yields the cookies as the jar keeps
\* them.
RECURSIVE PrivateCookieJarIter_raw(_, _)
PrivateCookieJarIter_raw(self, iter) ==
    IF iter = <<>> THEN <<>>
    ELSE <<Head(iter)>> \o PrivateCookieJarIter_raw(self, Tail(iter))

\* PrivateCookieJarIter::next, called until it answers None: the cookies the
\* iterator yields, in order, when the jar's iterator yields `iter`; each
\* cookie of the jar is looked up by name with get and left out when get
\* answers None.
RECURSIVE PrivateCookieJarIter_next(_, _)
PrivateCookieJarIter_next(self, iter) ==
    IF iter = <<>> THEN <<>>
    ELSE PrivateCookieJar_get(self, Head(iter).name)
         \o PrivateCookieJarIter_next(self, Tail(iter))

\* PrivateCookieJar::add_prefixed: the cookie of the unprefixed name is
\* removed from the jar, then the cookie, renamed, is added sealed.
PrivateCookieJar_add_prefixed(self, prefix, cookie) ==
    LET jar == Jar_remove(self.jar, Cookie_new(cookie.name, <<>>))
        new_cookie == [cookie EXCEPT !.name = PREFIX(prefix) \o cookie.name]
    IN  [jar |-> PrivateJar_add(jar, self.key, new_cookie), key |-> self.key]

\* PrivateCookieJar::get_prefixed
PrivateCookieJar_get_prefixed(self, prefix, name) ==
    LET c == Jar_get(self.jar, PREFIX(prefix) \o name)
    IN  IF c = None THEN None ELSE PrivateCookieJar_decrypt(self, c[1])

\* PrivateCookieJar::remove_prefixed
PrivateCookieJar_remove_prefixed(self, prefix, name) ==
    [self EXCEPT !.jar = PrefixedJar_remove(@, prefix, Cookie_from(name))]

----------------------------------------------------------------------------
(* The requests, the handlers and the responses *)

VARIABLES
    state,      \* the application state: the keys
    jarType,    \* the type of jar the handler takes
    request,    \* the values of the Cookie headers of the request
    pc,         \* "request", "handler" (the jar is built) or "response"
    jar,        \* the jar of the handler
    built,      \* how the handler got its jar: "extract", "new", "none" before
    response,   \* the values of the Set-Cookie headers of the response
    last,       \* the last operation on the jar, its arguments, the jar before it
    nops,       \* the number of operations of the handlers so far
    round,      \* the number of the request
    sent,       \* the cookie whose Set-Cookie pair the request sends back
    other,      \* another jar value: a clone, or the jar of another request
    otherSeen,  \* what the other jar answered when it was made
    flushed     \* the jar values turned into response parts, in order

vars == <<state, jarType, request, pc, jar, built, response, last, nops, round, sent,
          other, otherSeen, flushed>>

\* The bounds of the model.
MaxOps == 2
MaxRounds == 2

JarTypes == {"CookieJar", "PrivateCookieJar<Key>", "PrivateCookieJar<CustomKey>"}

IsPrivate == jarType # "CookieJar"

\* K::from_ref(state).into(): the key of the jar's key selector.
KeyOf(st, jt) == IF jt = "PrivateCookieJar<CustomKey>" THEN st.custom_key ELSE st.key

\* The names, values and cookies the handlers use.
NameK == Str(<<"k">>)
NameB == Str(<<"b">>)
ValueV == Str(<<"v">>)
Names == {NameK, NameB}
Cookies ==
    {Cookie_new(NameK, ValueV),
     Cookie_new(NameK, <<>>),
     Cookie_new(Str(<<"=">>), Str(<<"v", ";", " ">>)),
     Cookie_new(<<>>, ValueV),
     [Cookie_new(NameK, ValueV) EXCEPT !.path = Some(Str(<<"/", "\n">>))],
     [Cookie_new(NameB, ValueV) EXCEPT !.secure = Some(FALSE), !.path = Some(Str(<<"/", "x">>)),
                                       !.domain = Some(Str(<<"d">>))]}
PrefixedCookies == {c \in Cookies : c.name \in Names /\ c.value = ValueV /\ c.path # Some(Str(<<"/", "\n">>))}

\* A key no jar of the application has.
OtherKey == "k3"

\* name=value, as a client sends it.
Pair(name, value) == PercentEncode(name) \o <<Ch("=")>> \o PercentEncode(value)
Semi == Str(<<";", " ">>)

\* The requests: no cookie; a plaintext cookie; a cookie sealed under the
\* key with a forged one; the same under the prefix __Host-; a cookie sealed
\* under another key and, in a second header, a valid one; a sealed value
\* moved to another cookie.
Requests(key) ==
    {<<>>,
     <<Pair(NameK, ValueV)>>,
     <<Pair(NameK, Seal(key, NameK, ValueV)) \o Semi \o Pair(NameB, <<[junk |-> 1]>>)>>,
     <<Pair(prefixed_name("Host", NameK), ValueV)>>,
     <<Pair(prefixed_name("Host", NameK), Seal(key, prefixed_name("Host", NameK), ValueV))>>,
     <<Pair(NameK, Seal(OtherKey, NameK, ValueV)), Pair(NameB, Seal(key, NameB, ValueV))>>,
     <<Pair(NameB, Seal(key, NameK, ValueV))>>}

NoOp == [op |-> "none", prefix |-> "", cookie |-> Cookie_from(<<>>), pre |-> CookieJar_new]

Init ==
    /\ state = [key |-> "k1", custom_key |-> "k2"]
    /\ jarType \in JarTypes
    /\ request \in Requests(KeyOf(state, jarType))
    /\ pc = "request"
    /\ jar = CookieJar_new
    /\ built = "none"
    /\ response = <<>>
    /\ last = NoOp
    /\ nops = 0
    /\ round = 1
    /\ sent = None
    /\ other = None
    /\ otherSeen = None
    /\ flushed = <<>>

\* The operations of the jar of the handler's type.
Get(j, name) ==
    IF IsPrivate THEN PrivateCookieJar_get(j, name) ELSE CookieJar_get(j, name)
GetPrefixed(j, P, name) ==
    IF IsPrivate THEN PrivateCookieJar_get_prefixed(j, P, name)
    ELSE CookieJar_get_prefixed(j, P, name)
Iter(j) == IF IsPrivate THEN PrivateCookieJar_iter(j) ELSE CookieJar_iter(j)

\* FromRequestParts::from_request_parts of CookieJar and PrivateCookieJar<K>
FromRequestParts ==
    /\ pc = "request"
    /\ jar' = IF IsPrivate
              THEN PrivateCookieJar_from_headers(request, KeyOf(state, jarType))
              ELSE CookieJar_from_headers(request)
    /\ pc' = "handler"
    /\ built' = "extract"
    /\ last' = [NoOp EXCEPT !.op = "extract"]
    /\ UNCHANGED <<state, jarType, request, response, nops, round, sent,
                   other, otherSeen, flushed>>

\* CookieJar::new() and PrivateCookieJar::new(key): a handler that starts
\* from an empty jar.
New ==
    /\ pc = "request"
    /\ jar' = IF IsPrivate THEN PrivateCookieJar_new(KeyOf(state, jarType)) ELSE CookieJar_new
    /\ pc' = "handler"
    /\ built' = "new"
    /\ last' = [NoOp EXCEPT !.op = "new"]
    /\ UNCHANGED <<state, jarType, request, response, nops, round, sent,
                   other, otherSeen, flushed>>

\* A variant of a call on the jar in which the other jar value shares the
\* cookies of the handler's jar.
Step_shared(op, P, c, j) ==
    /\ jar' = j
    /\ last' = [op |-> op, prefix |-> P, cookie |-> c, pre |-> jar]
    /\ nops' = nops + 1
    /\ other' = IF other = None THEN None ELSE Some(j)
    /\ UNCHANGED <<state, jarType, request, pc, built, response, round, sent,
                   otherSeen, flushed>>

\* A call of the handler on its jar: the methods take the jar by value and
\* return it; no other jar value is touched.
Step(op, P, c, j) ==
    /\ jar' = j
    /\ last' = [op |-> op, prefix |-> P, cookie |-> c, pre |-> jar]
    /\ nops' = nops + 1
    /\ UNCHANGED <<state, jarType, request, pc, built, response, round, sent,
                   other, otherSeen, flushed>>

\* jar.add(cookie)
Add ==
    /\ pc = "handler" /\ nops < MaxOps
    /\ \E c \in Cookies :
          Step("add", "", c,
               IF IsPrivate THEN PrivateCookieJar_add(jar, c) ELSE CookieJar_add(jar, c))

\* jar.remove(Cookie::from(name))
Remove ==
    /\ pc = "handler" /\ nops < MaxOps
    /\ \E n \in Names :
          Step("remove", "", Cookie_from(n),
               IF IsPrivate THEN PrivateCookieJar_remove(jar, Cookie_from(n))
               ELSE CookieJar_remove(jar, Cookie_from(n)))

\* The prefixes and cookies of the calls of add_prefixed, and the names of
\* the calls of remove_prefixed.
PrefixedAdds ==
    {<<"Host", c>> : c \in PrefixedCookies} \cup {<<"Secure", Cookie_new(NameK, ValueV)>>}
PrefixedNames == {NameK}

\* jar.add_prefixed(prefix, cookie)
AddPrefixed ==
    /\ pc = "handler" /\ nops < MaxOps
    /\ \E a \in PrefixedAdds :
          Step("add_prefixed", a[1], a[2],
               IF IsPrivate THEN PrivateCookieJar_add_prefixed(jar, a[1], a[2])
               ELSE CookieJar_add_prefixed(jar, a[1], a[2]))

\* jar.remove_prefixed(prefix, name)
RemovePrefixed ==
    /\ pc = "handler" /\ nops < MaxOps
    /\ \E P \in Prefixes, n \in PrefixedNames :
          Step("remove_prefixed", P, Cookie_from(n),
               IF IsPrivate THEN PrivateCookieJar_remove_prefixed(jar, P, n)
               ELSE CookieJar_remove_prefixed(jar, P, n))

\* IntoResponseParts::into_response_parts: the handler returns the jar.
IntoResponseParts ==
    /\ pc = "handler"
    /\ \E order \in DeltaOrders(jar.jar) : response' = set_cookies(order, response)
    /\ pc' = "response"
    /\ flushed' = Append(flushed, [who |-> "jar", jar |-> jar])
    /\ UNCHANGED <<state, jarType, request, jar, built, last, nops, round, sent,
                   other, otherSeen>>

\* The name=value pair of a Set-Cookie header: the text before the first ';'.
PairOf(header) == Trim(Head(Split(header, Ch(";"))))

RECURSIVE Join(_)
Join(pairs) ==
    IF pairs = <<>> THEN <<>>
    ELSE IF Len(pairs) = 1 THEN pairs[1]
    ELSE pairs[1] \o Semi \o Join(Tail(pairs))

\* The cookie of the delta that the last operation, an add, put there.
StoredOfLast == jar.jar.delta_cookies[last.cookie.name].cookie

\* The client sends the pairs of the Set-Cookie headers back in the Cookie
\* header of its next request, to the same application.
NextRequest ==
    /\ pc = "response" /\ round < MaxRounds
    /\ request' = IF response = <<>> THEN <<>>
                  ELSE <<Join([i \in 1..Len(response) |-> PairOf(response[i])])>>
    /\ sent' = IF last.op = "add" /\ \E i \in 1..Len(response) : response[i] = Encoded(StoredOfLast)
               THEN Some(last.cookie) ELSE None
    /\ pc' = "request"
    /\ response' = <<>>
    /\ jar' = CookieJar_new
    /\ built' = "none"
    /\ last' = NoOp
    /\ round' = round + 1
    /\ other' = None
    /\ otherSeen' = None
    /\ flushed' = <<>>
    /\ UNCHANGED <<state, jarType, nops>>

Next ==
    \/ FromRequestParts
    \/ New
    \/ Add
    \/ Remove
    \/ AddPrefixed
    \/ RemovePrefixed
    \/ IntoResponseParts
    \/ NextRequest

Spec == Init /\ [][Next]_vars

----------------------------------------------------------------------------
(* Several jar values in one request/response cycle: clones, and the jar of *)
(* another request handled with the same application state.                 *)

\* The jar as it was built: the original cookies, nothing in the delta.
OriginalOf(j) == [j EXCEPT !.jar.delta_cookies = <<>>]

\* The names a jar knows, with the names the handlers use.
NamesOf(j) == DOMAIN j.jar.original_cookies \cup DOMAIN j.jar.delta_cookies \cup Names

\* #[derive(Clone)] of CookieJar and impl Clone for PrivateCookieJar: the
\* cookies are cloned, and the key.
CookieJar_clone(self) == [jar |-> self.jar]
PrivateCookieJar_clone(self) == [jar |-> self.jar, key |-> self.key]
Clone(j) == IF IsPrivate THEN PrivateCookieJar_clone(j) ELSE CookieJar_clone(j)

\* What a jar value answers: get for every name, iter, and the Set-Cookie
\* headers it would emit, for each order of its delta.
Observe(j) ==
    [get |-> [n \in NamesOf(j) |-> Get(j, n)],
     iter |-> Iter(j),
     headers |-> {set_cookies(o, <<>>) : o \in DeltaOrders(j.jar)}]

\* The most other jar values of one request/response cycle.
MaxOthers == 1

\* The other jar values made so far in the cycle.
OthersMade ==
    Cardinality({i \in 1..Len(flushed) : flushed[i].who = "other"})
    + (IF other = None THEN 0 ELSE 1)

\* The requests of the cycles with several jar values: no cookie, or a
\* cookie sealed under the key with a forged one.
CloneRequests(key) ==
    {<<>>,
     <<Pair(NameK, Seal(key, NameK, ValueV)) \o Semi \o Pair(NameB, <<[junk |-> 1]>>)>>}

InitClone ==
    /\ state = [key |-> "k1", custom_key |-> "k2"]
    /\ jarType \in JarTypes
    /\ request \in CloneRequests(KeyOf(state, jarType))
    /\ pc = "request"
    /\ jar = CookieJar_new
    /\ built = "none"
    /\ response = <<>>
    /\ last = NoOp
    /\ nops = 0
    /\ round = 1
    /\ sent = None
    /\ other = None
    /\ otherSeen = None
    /\ flushed = <<>>

\* A call of the handler on its jar: add, remove, add_prefixed or
\* remove_prefixed.
HandlerCall ==
    /\ pc = "handler" /\ nops < MaxOps
    /\ \/ \E c \in PrefixedCookies :
             Step("add", "", c,
                  IF IsPrivate THEN PrivateCookieJar_add(jar, c) ELSE CookieJar_add(jar, c))
       \/ Step("remove", "", Cookie_from(NameK),
               IF IsPrivate THEN PrivateCookieJar_remove(jar, Cookie_from(NameK))
               ELSE CookieJar_remove(jar, Cookie_from(NameK)))
       \/ Step("add_prefixed", "Host", Cookie_new(NameK, ValueV),
               IF IsPrivate
               THEN PrivateCookieJar_add_prefixed(jar, "Host", Cookie_new(NameK, ValueV))
               ELSE CookieJar_add_prefixed(jar, "Host", Cookie_new(NameK, ValueV)))
       \/ Step("remove_prefixed", "Host", Cookie_from(NameK),
               IF IsPrivate THEN PrivateCookieJar_remove_prefixed(jar, "Host", NameK)
               ELSE CookieJar_remove_prefixed(jar, "Host", NameK))

\* let other = jar.clone()
CloneJar ==
    /\ pc = "handler" /\ other = None /\ OthersMade < MaxOthers
    /\ other' = Some(Clone(jar))
    /\ otherSeen' = Some(Observe(jar))
    /\ UNCHANGED <<state, jarType, request, pc, jar, built, response, last, nops, round,
                   sent, flushed>>

\* Another request is handled with the same state: its jar is extracted with
\* the same key.
OtherRequest ==
    /\ pc = "handler" /\ other = None /\ OthersMade < MaxOthers
    /\ \E r \in CloneRequests(KeyOf(state, jarType)) :
          LET j == IF IsPrivate
                   THEN PrivateCookieJar_from_headers(r, KeyOf(state, jarType))
                   ELSE CookieJar_from_headers(r)
          IN  other' = Some(j) /\ otherSeen' = Some(Observe(j))
    /\ UNCHANGED <<state, jarType, request, pc, jar, built, response, last, nops, round,
                   sent, flushed>>

\* A variant of the action below that leaves the other jar value in place.
OtherIntoResponseParts_kept ==
    /\ pc \in {"handler", "response"} /\ other # None
    /\ \E order \in DeltaOrders(other[1].jar) : response' = set_cookies(order, response)
    /\ flushed' = Append(flushed, [who |-> "other", jar |-> other[1]])
    /\ UNCHANGED <<state, jarType, request, pc, jar, built, last, nops, round, sent,
                   other, otherSeen>>

\* into_response_parts of the other jar value, returned by the handler beside
\* its jar or turned into a response by the handler itself: the value is
\* consumed.
OtherIntoResponseParts ==
    /\ pc \in {"handler", "response"} /\ other # None
    /\ \E order \in DeltaOrders(other[1].jar) : response' = set_cookies(order, response)
    /\ flushed' = Append(flushed, [who |-> "other", jar |-> other[1]])
    /\ other' = None
    /\ otherSeen' = None
    /\ UNCHANGED <<state, jarType, request, pc, jar, built, last, nops, round, sent>>

NextClone ==
    \/ FromRequestParts
    \/ New
    \/ HandlerCall
    \/ CloneJar
    \/ OtherRequest
    \/ IntoResponseParts
    \/ OtherIntoResponseParts

SpecClone == InitClone /\ [][NextClone]_vars

----------------------------------------------------------------------------
(* The parsing of the Cookie headers of arbitrary requests *)

\* The most tokens a request holds, over all its Cookie headers.
MaxTokens == 2

\* The tokens of the Cookie headers: pairs, pairs with white space, with
\* percent-encoded text, with bytes that are not UTF-8, with no name, with no
\* '=', empty, with a second '=', with an unfinished escape, with a
\* non-ASCII character, and a pair with a byte that is not text.
Tokens ==
    {Str(<<"k", "=", "v">>),
     Str(<<"k", "=">>),
     Str(<<" ", "b", "=", "v", " ">>),
     Str(<<"%", "3", "D", "=", "v", "%", "3", "B", "%", "2", "0">>),
     Str(<<"k", "=", "%", "F", "F">>),
     Str(<<"=", "v">>),
     Str(<<"k", "v">>),
     <<>>,
     Str(<<"k", "=", "v", "=", "b">>),
     Str(<<"b", "=", "%", "3">>),
     Str(<<"b", "=", "%", "C", "3", "%", "A", "9">>),
     Str(<<" ", "=", "v">>),
     Str(<<"k", "=">>) \o <<[raw |-> 255]>>}

\* The value of a Cookie header that holds the tokens, ';' between them.
RECURSIVE JoinTokens(_)
JoinTokens(tokens) ==
    IF Len(tokens) = 1 THEN tokens[1]
    ELSE tokens[1] \o <<Ch(";")>> \o JoinTokens(Tail(tokens))

TokenSeqs(n) == UNION {[1..m -> Tokens] : m \in 1..n}

\* The Cookie headers of the requests that hold at most n tokens.
RECURSIVE HeaderSeqs(_)
HeaderSeqs(n) ==
    {<<>>} \cup
    UNION {{<<JoinTokens(ts)>> \o r : r \in HeaderSeqs(n - Len(ts))} : ts \in TokenSeqs(n)}

InitParse ==
    /\ state = [key |-> "k1", custom_key |-> "k2"]
    /\ jarType = "CookieJar"
    /\ request \in HeaderSeqs(MaxTokens)
    /\ pc = "request"
    /\ jar = CookieJar_new
    /\ built = "none"
    /\ response = <<>>
    /\ last = NoOp
    /\ nops = 0
    /\ round = 1
    /\ sent = None
    /\ other = None
    /\ otherSeen = None
    /\ flushed = <<>>

\* A handler that takes the jar of the request and returns it.
NextParse ==
    \/ FromRequestParts
    \/ IntoResponseParts

SpecParse == InitParse /\ [][NextParse]_vars

----------------------------------------------------------------------------
(* The claims *)

\* The cookies of the request, and those of them the key of the jar decrypts.
RequestCookies == cookies_from_request(request)
Carried(name) ==
    LET cookies == RequestCookies
    IN  \E i \in 1..Len(cookies) :
            /\ cookies[i].name = name
            /\ IsPrivate => Unseal(KeyOf(state, jarType), name, cookies[i].value) # None

\* C1: get(X.name) on the jar that add(X) returns gives a cookie with the
\* name and the plaintext value of X, for CookieJar and PrivateCookieJar,
\* whatever the jar held before.
C1_GetAfterAdd ==
    (pc = "handler" /\ last.op = "add") =>
        LET g == Get(jar, last.cookie.name)
        IN  /\ g # None
            /\ g[1].name = last.cookie.name
            /\ g[1].value = last.cookie.value

\* A private jar whose add replaced the removal of a cookie of the request.
C1_Witness ==
    /\ pc = "handler" /\ last.op = "add" /\ IsPrivate /\ nops = 2
    /\ last.cookie.name \in DOMAIN last.pre.jar.delta_cookies
    /\ last.pre.jar.delta_cookies[last.cookie.name].removed
    /\ Get(jar, last.cookie.name) # None

\* C2 as stated: when the pair of the Set-Cookie header that jar.add(Cookie(n,
\* v)) produced comes back in the Cookie header of the next request, handled
\* with the same key, get(n) on the jar of that request gives the value v.
C2_RoundTrip_Original ==
    (pc = "handler" /\ last.op = "extract" /\ sent # None) =>
        LET g == Get(jar, sent[1].name)
        IN  g # None /\ g[1].value = sent[1].value

\* C2, amended: the same for every cookie whose name is not empty; a pair
\* with an empty name does not parse (EmptyName) and the cookie is absent.
C2_RoundTrip ==
    (pc = "handler" /\ last.op = "extract" /\ sent # None) =>
        LET g == Get(jar, sent[1].name)
        IN  IF sent[1].name # <<>>
            THEN g # None /\ g[1].name = sent[1].name /\ g[1].value = sent[1].value
            ELSE g = None

\* A jar with a custom key selector gets back a cookie whose name and value
\* are percent-encoded in the headers.
C2_Witness ==
    /\ pc = "handler" /\ last.op = "extract" /\ sent # None
    /\ jarType = "PrivateCookieJar<CustomKey>"
    /\ sent[1].name = Str(<<"=">>)
    /\ Get(jar, sent[1].name) # None
    /\ Get(jar, sent[1].name)[1].value = Str(<<"v", ";", " ">>)

\* C3: a private jar built from a request answers None for every cookie name
\* whose values in the request were not sealed under the jar's key for that
\* name (plaintext, forged, sealed under another key or for another name),
\* and still answers the plaintext of the cookies that were.
C3_InvalidIsAbsent ==
    (pc = "handler" /\ last.op = "extract" /\ IsPrivate) =>
        LET cookies == RequestCookies
            key == KeyOf(state, jarType)
        IN  \A i \in 1..Len(cookies) :
                LET c == cookies[i]
                    valid == {j \in 1..Len(cookies) :
                                 /\ cookies[j].name = c.name
                                 /\ Unseal(key, c.name, cookies[j].value) # None}
                    lastValid == CHOOSE j \in valid : \A m \in valid : m <= j
                IN  IF valid = {}
                    THEN Get(jar, c.name) = None
                    ELSE /\ Get(jar, c.name) # None
                         /\ Get(jar, c.name)[1].name = c.name
                         /\ Get(jar, c.name)[1].value =
                                Unseal(key, c.name, cookies[lastValid].value)[1]

\* A request with a cookie sealed under another key and a valid cookie: the
\* first is absent, the second readable.
C3_Witness ==
    /\ pc = "handler" /\ last.op = "extract" /\ IsPrivate
    /\ Len(RequestCookies) = 2
    /\ RequestCookies[1].value = Seal(OtherKey, NameK, ValueV)
    /\ Get(jar, NameK) = None
    /\ Get(jar, NameB) # None /\ Get(jar, NameB)[1].value = ValueV

\* The name under which the last prefixed operation keeps its cookie.
LastStoredName ==
    IF last.op \in {"add_prefixed", "remove_prefixed"}
    THEN prefixed_name(last.prefix, last.cookie.name)
    ELSE last.cookie.name

\* The Set-Cookie headers of the response for the cookie called name.
HeadersFor(name) ==
    {i \in 1..Len(response) : StartsWith(response[i], PercentEncode(name) \o <<Ch("=")>>)}

\* The text n=v of a cookie, as written.
LiteralPair(c) == c.name \o <<Ch("=")>> \o c.value

\* The value of the cookie called name that the jar took from the request:
\* that of the last such cookie, in plaintext.
CarriedValue(name) ==
    LET key == KeyOf(state, jarType)
        cookies == RequestCookies
        idx == {i \in 1..Len(cookies) :
                   /\ cookies[i].name = name
                   /\ IsPrivate => Unseal(key, name, cookies[i].value) # None}
        j == CHOOSE i \in idx : \A m \in idx : m <= i
    IN  IF IsPrivate THEN Unseal(key, name, cookies[j].value)[1]
        ELSE cookies[j].value

C5_RemovalHeader ==
    (/\ pc = "response" /\ built = "extract"
     /\ last.op \in {"remove", "remove_prefixed"}
     /\ Carried(LastStoredName)) =>
        \E i \in 1..Len(response) :
            /\ PairOf(response[i]) = PercentEncode(LastStoredName) \o <<Ch("=")>>
            /\ Contains(response[i], Str(<<";", " ", "M", "a", "x", "-", "A", "g", "e", "=", "0">>))
            /\ Contains(response[i],
                        Str(<<";", " ", "E", "x", "p", "i", "r", "e", "s", "=">>) \o DateText("past"))

\* A private jar that removes the __Host- cookie of its request.
C5_Witness ==
    /\ pc = "response" /\ built = "extract" /\ IsPrivate
    /\ last.op = "remove_prefixed" /\ last.prefix = "Host"
    /\ Carried(LastStoredName)
    /\ \E i \in 1..Len(response) :
          StartsWith(response[i], prefixed_name("Host", NameK) \o Str(<<"=", ";">>))

\* C6 as stated: removing a cookie whose name is neither among the cookies
\* of the request nor added by the handler leaves a deletion instruction for
\* that name in the delta, and so in the response.
C6_RemoveNeverAdded_Original ==
    (/\ last.op \in {"remove", "remove_prefixed"}
     /\ \A i \in 1..Len(RequestCookies) : RequestCookies[i].name # LastStoredName
     /\ LastStoredName \notin DOMAIN last.pre.jar.delta_cookies) =>
        /\ LastStoredName \in DOMAIN jar.jar.delta_cookies
        /\ jar.jar.delta_cookies[LastStoredName].removed
        /\ pc = "response" => HeadersFor(LastStoredName) # {}

\* C6, amended: remove leaves a deletion instruction exactly when the jar
\* took a cookie of that name from its request; otherwise the name leaves the
\* delta and the response has no Set-Cookie header for it.
C6_RemoveDeletesOriginalsOnly ==
    (last.op \in {"remove", "remove_prefixed"}) =>
        LET n == LastStoredName
            delta == jar.jar.delta_cookies
        IN  IF built = "extract" /\ Carried(n)
            THEN /\ n \in DOMAIN delta
                 /\ delta[n].removed
                 /\ delta[n].cookie.value = <<>>
                 /\ delta[n].cookie.max_age = Some(0)
                 /\ delta[n].cookie.expires = Some("past")
                 /\ pc = "response" => HeadersFor(n) # {}
            ELSE /\ n \notin DOMAIN delta
                 /\ pc = "response" => HeadersFor(n) = {}

\* A jar that removes a cookie never added: the response has no header.
C6_Witness ==
    /\ pc = "response" /\ last.op = "remove"
    /\ \A i \in 1..Len(RequestCookies) : RequestCookies[i].name # last.cookie.name
    /\ last.cookie.name \notin DOMAIN last.pre.jar.delta_cookies
    /\ jar.jar.delta_cookies = <<>>
    /\ response = <<>>

\* C7: on a jar built from a request that carried the cookie named prefix+n
\* (sealed under the jar's key, for a private jar), get_prefixed(P, n) gives
\* a cookie whose name is n and whose value is the plaintext.
C7_GetPrefixedUnprefixed ==
    (pc = "handler" /\ last.op = "extract") =>
        \A P \in Prefixes, n \in Names :
            Carried(prefixed_name(P, n)) =>
                LET g == GetPrefixed(jar, P, n)
                IN  /\ g # None
                    /\ g[1].name = n
                    /\ g[1].value = CarriedValue(prefixed_name(P, n))

\* A private jar whose get_prefixed answers a cookie with the prefixed name.
C7_Witness ==
    /\ pc = "handler" /\ last.op = "extract" /\ IsPrivate
    /\ Carried(prefixed_name("Host", NameK))
    /\ GetPrefixed(jar, "Host", NameK) # None
    /\ GetPrefixed(jar, "Host", NameK)[1].name = prefixed_name("Host", NameK)
    /\ GetPrefixed(jar, "Host", NameK)[1].value = ValueV

\* C8: add_prefixed(P, c) puts into the delta a cookie named P's prefix
\* followed by c.name that has the attributes the prefix requires: Secure
\* set, and for the Host prefix Path=/ and no Domain.
C8_AddPrefixedConforms ==
    (last.op = "add_prefixed") =>
        LET n == LastStoredName
            delta == jar.jar.delta_cookies
        IN  /\ n \in DOMAIN delta
            /\ ~delta[n].removed
            /\ delta[n].cookie.name = n
            /\ delta[n].cookie.secure = Some(TRUE)
            /\ last.prefix = "Host" => delta[n].cookie.path = Some(Str(<<"/">>))

\* A private jar whose add_prefixed(Host, c) keeps the attributes of c: no
\* Secure, the Path and the Domain of c.
C8_Witness ==
    /\ last.op = "add_prefixed" /\ IsPrivate /\ last.prefix = "Host"
    /\ last.cookie.path = Some(Str(<<"/", "x">>))
    /\ LastStoredName \in DOMAIN jar.jar.delta_cookies
    /\ jar.jar.delta_cookies[LastStoredName].cookie.secure # Some(TRUE)
    /\ jar.jar.delta_cookies[LastStoredName].cookie.path = Some(Str(<<"/", "x">>))
    /\ jar.jar.delta_cookies[LastStoredName].cookie.domain # None

\* C9: the response of a returned jar has one Set-Cookie header for each
\* cookie of the delta, added or removed, whose encoded text is a header
\* value, with a percent-encoded pair, and no other header; the cookies
\* whose text is not a header value are left out, whatever the order.
C9_OneHeaderPerDeltaEntry ==
    (pc = "response") =>
        LET D == Jar_delta(jar.jar)
            valid == {c \in D : IsHeaderValue(Encoded(c))}
            texts == {Encoded(c) : c \in valid}
        IN  /\ Len(response) = Cardinality(valid)
            /\ \A i \in 1..Len(response) : response[i] \in texts
            /\ \A c \in valid :
                  \E i \in 1..Len(response) :
                      /\ response[i] = Encoded(c)
                      /\ StartsWith(response[i],
                                    PercentEncode(c.name) \o <<Ch("=")>> \o PercentEncode(c.value))

\* A delta of a removal and of a cookie whose path holds a line feed: only
\* the removal is in the response.
C9_Witness ==
    /\ pc = "response"
    /\ Cardinality(DOMAIN jar.jar.delta_cookies) = 2
    /\ \E n \in DOMAIN jar.jar.delta_cookies : jar.jar.delta_cookies[n].removed
    /\ \E c \in Jar_delta(jar.jar) : ~IsHeaderValue(Encoded(c))
    /\ Len(response) = 1


\* The well-formed tokens with the name and the value each stands for: the
\* text before the first '=' and the text after it, white space cut from
\* both, percent-decoded as UTF-8.
WellFormed ==
    {[text |-> Str(<<"k", "=", "v">>), name |-> Str(<<"k">>), value |-> Str(<<"v">>)],
     [text |-> Str(<<"k", "=">>), name |-> Str(<<"k">>), value |-> <<>>],
     [text |-> Str(<<" ", "b", "=", "v", " ">>), name |-> Str(<<"b">>), value |-> Str(<<"v">>)],
     [text |-> Str(<<"%", "3", "D", "=", "v", "%", "3", "B", "%", "2", "0">>), name |-> Str(<<"=">>), value |-> Str(<<"v", ";", " ">>)],
     [text |-> Str(<<"k", "=", "v", "=", "b">>), name |-> Str(<<"k">>), value |-> Str(<<"v", "=", "b">>)],
     [text |-> Str(<<"b", "=", "%", "3">>), name |-> Str(<<"b">>), value |-> Str(<<"%", "3">>)],
     [text |-> Str(<<"b", "=", "%", "C", "3", "%", "A", "9">>), name |-> Str(<<"b">>), value |-> <<[u |-> <<195, 169>>]>>]}

\* The places of the tokens of the request: header i, token j of its value.
Positions ==
    UNION {{<<i, j>> : j \in 1..Len(Split(request[i], Ch(";")))} : i \in 1..Len(request)}
TokenAt(p) == Split(request[p[1]], Ch(";"))[p[2]]
IsTextHeader(h) == \A i \in 1..Len(h) : ~IsRaw(h[i])
IsWellFormedAt(p) ==
    IsTextHeader(request[p[1]]) /\ \E w \in WellFormed : w.text = TokenAt(p)
DecodedAt(p) == CHOOSE w \in WellFormed : w.text = TokenAt(p)
NotAfter(p, q) == p[1] < q[1] \/ (p[1] = q[1] /\ p[2] <= q[2])

\* C10 as stated: for every well-formed token of a Cookie header that is
\* text, get(name) on the jar of CookieJar::from_headers gives the decoded
\* value of the token.
C10_EveryToken_Original ==
    (pc = "handler" /\ last.op = "extract" /\ ~IsPrivate) =>
        \A p \in Positions :
            IsWellFormedAt(p) =>
                LET g == Get(jar, DecodedAt(p).name)
                IN  g # None /\ g[1].value = DecodedAt(p).value

\* C10, amended: the jar holds one cookie for each name of a well-formed
\* token of a header that is text, and no other; get(name) gives the decoded
\* value of the last token of that name, headers in order and tokens left to
\* right; the delta is empty.
C10_LastTokenOfEachName ==
    (pc = "handler" /\ last.op = "extract" /\ ~IsPrivate) =>
        LET W == {p \in Positions : IsWellFormedAt(p)}
        IN  /\ {c.name : c \in Iter(jar)} = {DecodedAt(p).name : p \in W}
            /\ jar.jar.delta_cookies = <<>>
            /\ \A p \in W :
                  LET n == DecodedAt(p).name
                      l == CHOOSE q \in W :
                              /\ DecodedAt(q).name = n
                              /\ \A r \in W : DecodedAt(r).name = n => NotAfter(r, q)
                      g == Get(jar, n)
                  IN  g # None /\ g[1].name = n /\ g[1].value = DecodedAt(l).value
            /\ \A n \in {<<>>, Str(<<"k", "v">>), Str(<<" ", "b">>)} \cup Names :
                  (\A p \in W : DecodedAt(p).name # n) => Get(jar, n) = None

\* A request whose first Cookie header is not text and whose second holds a
\* pair in white space: the pair is read, the first header is dropped.
C10_Witness ==
    /\ pc = "handler" /\ last.op = "extract" /\ ~IsPrivate
    /\ Len(request) = 2
    /\ ~IsTextHeader(request[1])
    /\ request[2] = Str(<<" ", "b", "=", "v", " ">>)
    /\ Get(jar, NameK) = None
    /\ Get(jar, NameB) # None /\ Get(jar, NameB)[1].value = ValueV


\* C11 as stated: a name is in the delta exactly when the current cookie of
\* that name differs from the original one (new, changed, or removed though
\* original); a name whose cookie equals the original one is not in the
\* delta and has no Set-Cookie header.
C11_DeltaIsDiff_Original ==
    (pc \in {"handler", "response"}) =>
        \A n \in NamesOf(jar) :
            /\ n \in DOMAIN jar.jar.delta_cookies <=> Get(jar, n) # Get(OriginalOf(jar), n)
            /\ (pc = "response" /\ Get(jar, n) = Get(OriginalOf(jar), n)) => HeadersFor(n) = {}

\* C11, amended: the delta is the record of the last operation on each name,
\* not a diff.  add(c) puts c into the delta whether or not it equals the
\* original cookie of its name, and the response has its Set-Cookie header
\* when its text is a header value; remove(n) puts a removal into the delta
\* when the original cookies hold n and takes n out of the delta otherwise;
\* the entries of the other names stay, and the original cookies stay.
C11_DeltaIsLastOperation ==
    (last.op \in {"add", "remove"}) =>
        LET n == last.cookie.name
            delta == jar.jar.delta_cookies
            before == last.pre.jar.delta_cookies
            original == jar.jar.original_cookies
        IN  /\ original = last.pre.jar.original_cookies
            /\ \A m \in (DOMAIN delta \cup DOMAIN before) \ {n} :
                  m \in DOMAIN delta /\ m \in DOMAIN before /\ delta[m] = before[m]
            /\ last.op = "add" =>
                  /\ n \in DOMAIN delta /\ ~delta[n].removed
                  /\ Get(jar, n) # None /\ Get(jar, n)[1] = last.cookie
                  /\ (pc = "response" /\ IsHeaderValue(Encoded(delta[n].cookie)))
                        => HeadersFor(n) # {}
            /\ last.op = "remove" =>
                  /\ n \in DOMAIN delta <=> n \in DOMAIN original
                  /\ n \in DOMAIN delta => delta[n].removed
                  /\ Get(jar, n) = None

\* The cookie of the request is added again, unchanged: it is in the delta
\* and the response has its Set-Cookie header.
C11_Witness ==
    /\ pc = "response" /\ built = "extract" /\ last.op = "add" /\ nops = 1
    /\ Get(OriginalOf(jar), last.cookie.name) = Some(last.cookie)
    /\ Get(jar, last.cookie.name) = Get(OriginalOf(jar), last.cookie.name)
    /\ last.cookie.name \in DOMAIN jar.jar.delta_cookies
    /\ HeadersFor(last.cookie.name) # {}


\* C12: iter() on a PrivateCookieJar yields, whatever the order of the jar's
\* own iterator, each cookie for which get answers Some exactly once, with
\* its plaintext value, and nothing else: no removed cookie, no cookie of the
\* request that is not authentic under the jar's key.
C12_PrivateIter ==
    (pc = "handler" /\ IsPrivate) =>
        LET gettable == {n \in NamesOf(jar) : Get(jar, n) # None}
        IN  /\ Iter(jar) = {Get(jar, n)[1] : n \in gettable}
            /\ \A o \in Orders(Jar_iter(jar.jar)) :
                  LET y == PrivateCookieJarIter_next(jar, o)
                  IN  /\ Len(y) = Cardinality(gettable)
                      /\ {y[i].name : i \in 1..Len(y)} = gettable
                      /\ \A i \in 1..Len(y) :
                            /\ y[i] = Get(jar, y[i].name)[1]
                            /\ \A j \in 1..Len(y[i].value) : ~IsSealed(y[i].value[j])
            /\ last.op = "extract" =>
                  gettable = {n \in NamesOf(jar) : Carried(n)}

\* A private jar built from a request with a valid cookie and a forged one,
\* to which the handler added a cookie: iter yields the valid one and the
\* added one, in plaintext.
C12_Witness ==
    /\ pc = "handler" /\ IsPrivate /\ built = "extract" /\ last.op = "add"
    /\ Len(RequestCookies) = 2
    /\ IsJunk(RequestCookies[2].value[1])
    /\ last.cookie.name = Str(<<"=">>)
    /\ Iter(jar) = {Cookie_new(NameK, ValueV), last.cookie}
    /\ \A o \in Orders(Jar_iter(jar.jar)) : Len(PrivateCookieJarIter_next(jar, o)) = 2


EmittedBy(j) == {Encoded(c) : c \in {d \in Jar_delta(j.jar) : IsHeaderValue(Encoded(d))}}

\* What each of the jar values turned into response parts emitted.
RECURSIVE EmittedAll(_)
EmittedAll(fl) ==
    IF fl = <<>> THEN <<>>
    ELSE <<EmittedBy(Head(fl).jar)>> \o EmittedAll(Tail(fl))

\* C14 as stated: however the handler uses the jars, clones included, no
\* cookie of a delta is in the response more than once.
C14_NoHeaderTwice_Original ==
    \A i, j \in 1..Len(response) : i # j => response[i] # response[j]

\* C14, amended: each jar value is turned into response parts at most once,
\* being consumed by it, and appends each cookie of its delta once; the
\* response holds a Set-Cookie header as many times as there are jar values,
\* among those the handler returned, whose delta holds its cookie: twice for
\* a jar returned together with a clone of it.
C14_OncePerJarValue ==
    /\ Cardinality({i \in 1..Len(flushed) : flushed[i].who = "jar"})
           = (IF pc = "response" THEN 1 ELSE 0)
    /\ OthersMade <= MaxOthers
    /\ LET emitted == EmittedAll(flushed)
       IN  \A h \in {response[i] : i \in 1..Len(response)}
                    \cup UNION {emitted[i] : i \in 1..Len(emitted)} :
              Cardinality({i \in 1..Len(response) : response[i] = h})
                  = Cardinality({i \in 1..Len(emitted) : h \in emitted[i]})

\* A handler that returns its jar and a clone of it: the cookie it added is
\* in the response twice.
C14_Witness ==
    /\ pc = "response" /\ Len(flushed) = 2
    /\ flushed[1].jar = flushed[2].jar
    /\ last.op = "add"
    /\ Len(response) = 2 /\ response[1] = response[2]
    /\ response[1] = Encoded(jar.jar.delta_cookies[last.cookie.name].cookie)


\* C15: a jar extracted from a request on which the handler called nothing
\* has an empty delta, and returning it adds no Set-Cookie header, whatever
\* cookies the request carried; the cookies it accepted are its original
\* cookies.
C15_UntouchedJarEmitsNothing ==
    (built = "extract" /\ last.op = "extract") =>
        /\ jar.jar.delta_cookies = <<>>
        /\ \A n \in NamesOf(jar) : Carried(n) <=> n \in DOMAIN jar.jar.original_cookies
        /\ pc = "response" => response = <<>>

\* A private jar extracted from a request with a cookie sealed under its key
\* and returned as it is: no header.
C15_Witness ==
    /\ pc = "response" /\ built = "extract" /\ last.op = "extract" /\ IsPrivate
    /\ Carried(NameK)
    /\ Get(jar, NameK) = Some(Cookie_new(NameK, ValueV))
    /\ Len(flushed) = 1
    /\ response = <<>>


\* The name of the cookie of a Set-Cookie header, percent-encoded as it is
\* there: the text before the first '='.
HeaderName(h) == Upto(h, FirstIndex(h, Ch("=")) - 1)

\* C16: the delta has one entry for a name at most, kept under the name of
\* its cookie, so the response of the returned jar has at most one
\* Set-Cookie header for a name; when the last call was add(c), the entry
\* of c's name is c (sealed, in a private jar), whatever entry the name had,
\* and the header of that name, when there is one, is the text of c.
C16_OneEntryPerName ==
    (pc \in {"handler", "response"}) =>
        LET delta == jar.jar.delta_cookies
        IN  /\ \A n \in DOMAIN delta : delta[n].cookie.name = n
            /\ \A c, d \in Jar_delta(jar.jar) : c.name = d.name => c = d
            /\ pc = "response" =>
                  \A i, j \in 1..Len(response) :
                      i # j => HeaderName(response[i]) # HeaderName(response[j])
            /\ last.op = "add" =>
                  LET n == last.cookie.name
                      c == IF IsPrivate
                           THEN [last.cookie EXCEPT
                                    !.value = Seal(KeyOf(state, jarType), n, last.cookie.value)]
                           ELSE last.cookie
                  IN  /\ n \in DOMAIN delta
                      /\ delta[n] = DeltaCookie_added(c)
                      /\ pc = "response" =>
                            \A i \in HeadersFor(n) :
                                response[i] = PercentEncode(n) \o <<Ch("=")>>
                                              \o PercentEncode(c.value) \o fmt_parameters(c)

\* A jar whose second call adds a cookie under a name that the first call
\* had added with another value: one header, that of the second cookie.
C16_Witness ==
    /\ pc = "response" /\ last.op = "add" /\ nops = 2
    /\ last.cookie = Cookie_new(NameK, <<>>)
    /\ NameK \in DOMAIN last.pre.jar.delta_cookies
    /\ ~last.pre.jar.delta_cookies[NameK].removed
    /\ last.pre.jar.delta_cookies[NameK].cookie.value # <<>>
    /\ ~IsPrivate
    /\ response = <<Str(<<"k", "=">>)>>


\* C17: add_prefixed(P, c) changes the entry of the name prefix+c.name only:
\* for every other name, c.name among them, get answers after the call what
\* it answered before, and the delta has the entry it had, or none as before.
C17_AddPrefixedFrame ==
    (last.op = "add_prefixed") =>
        LET delta == jar.jar.delta_cookies
            before == last.pre.jar.delta_cookies
        IN  \A n \in (NamesOf(jar) \cup NamesOf(last.pre)) \ {LastStoredName} :
                /\ Get(jar, n) = Get(last.pre, n)
                /\ n \in DOMAIN delta <=> n \in DOMAIN before
                /\ n \in DOMAIN delta => delta[n] = before[n]

\* A private jar that took the cookie k from its request: after
\* add_prefixed(Host, Cookie(k, v)) get(k) answers None and the delta holds
\* a removal of k.
C17_Witness ==
    /\ last.op = "add_prefixed" /\ IsPrivate /\ built = "extract"
    /\ last.cookie.name = NameK /\ last.prefix = "Host"
    /\ Carried(NameK)
    /\ Get(last.pre, NameK) # None
    /\ NameK \notin DOMAIN last.pre.jar.delta_cookies
    /\ Get(jar, NameK) = None
    /\ NameK \in DOMAIN jar.jar.delta_cookies
    /\ jar.jar.delta_cookies[NameK].removed


====
